---- MODULE Spec2Model ----
(***************************************************************************)
(* Model of the timing analyzer of svg-video (src/lib/svg-analyzer.ts and  *)
(* parseTime of src/lib/utils.ts).                                         *)
(*                                                                         *)
(* Strings are sequences of one-character strings, so that the regular     *)
(* expression of parseTime and the prefix scan of parseFloat are computed  *)
(* character by character.                                                 *)
(*                                                                         *)
(* JavaScript values of type number | null are tagged tuples:              *)
(*   Null = <<"null">>, NaN = <<"NaN">>, Num(n) = <<"num", n>>             *)
(* where n is a fixed-point integer counting TENTHS (1.5 is 15, and a      *)
(* duration of 1500 ms is 15000).  Inputs carry at most one fractional     *)
(* digit and no exponent, so every product and sum the code forms on them  *)
(* is exact in this representation.                                        *)
(***************************************************************************)
EXTENDS Integers, Sequences, FiniteSets, TLC

VARIABLES
  doc,       \* the elements below the root, in document order
  pc,        \* the position of the run
  trace,     \* the timing computed for every visited directive
  result,    \* what analyzeAnimations returned
  root,      \* the document element
  dims,      \* what extractDimensions returned
  error,     \* the kind of the error thrown, "none" when nothing was thrown
  timeArg,   \* the argument of parseTime
  timeOut,   \* what parseTime returned
  opts,      \* the command line options
  locals,    \* finalWidth, finalHeight, durationMs and finalFps of main
  files,     \* the temporary files that exist
  stages,    \* the stages main has entered, in order
  exitCode,  \* <<>> while main runs, <<code>> once the process has exited
  rec        \* the locals of recordAnimation and what it has done so far

vars == <<doc, pc, trace, result, root, dims, error, timeArg, timeOut, opts, locals, files, stages, exitCode, rec>>

svgVars == <<root, dims, error>>
timeVars == <<timeArg, timeOut>>
mainVars == <<opts, locals, files, stages, exitCode>>
recVars == <<rec>>

----------------------------------------------------------------------------
(* Bounds *)

MaxElems == 2

----------------------------------------------------------------------------
(* JavaScript number | null values *)

Null == <<"null">>
NaN == <<"NaN">>
Num(n) == <<"num", n>>
IsNum(v) == v[1] = "num"
\* the whole number n in fixed point
Whole(n) == n * 10

\* a * b of two numbers (NaN is contagious)
JsMul(a, b) ==
  IF IsNum(a) /\ IsNum(b)
    THEN IF a[2] % 10 = 0 THEN Num((a[2] \div 10) * b[2])
                          ELSE Num((a[2] * b[2]) \div 10)
    ELSE NaN

\* a + b
JsAdd(a, b) == IF IsNum(a) /\ IsNum(b) THEN Num(a[2] + b[2]) ELSE NaN

\* a > b, false when either is NaN
JsGt(a, b) == IsNum(a) /\ IsNum(b) /\ a[2] > b[2]

\* a <= b, false when either is NaN
JsLe(a, b) == IsNum(a) /\ IsNum(b) /\ a[2] <= b[2]

\* Math.max(a, b): NaN when either is NaN
MathMax2(a, b) ==
  IF IsNum(a) /\ IsNum(b) THEN (IF a[2] >= b[2] THEN a ELSE b) ELSE NaN

\* Math.min(a, b)
MathMin2(a, b) ==
  IF IsNum(a) /\ IsNum(b) THEN (IF a[2] <= b[2] THEN a ELSE b) ELSE NaN

RECURSIVE MathMax(_)
\* Math.max(...arr) of a non-empty array
MathMax(arr) ==
  IF Len(arr) = 1 THEN arr[1] ELSE MathMax2(arr[1], MathMax(Tail(arr)))

RECURSIVE MathMin(_)
\* Math.min(...arr) of a non-empty array
MathMin(arr) ==
  IF Len(arr) = 1 THEN arr[1] ELSE MathMin2(arr[1], MathMin(Tail(arr)))

----------------------------------------------------------------------------
(* Strings *)

Digits == {"0", "1", "2", "3", "4", "5", "6", "7", "8", "9"}

DigitVal(c) ==
  CASE c = "0" -> 0 [] c = "1" -> 1 [] c = "2" -> 2 [] c = "3" -> 3
    [] c = "4" -> 4 [] c = "5" -> 5 [] c = "6" -> 6 [] c = "7" -> 7
    [] c = "8" -> 8 [] c = "9" -> 9

\* the string 'indefinite'
INDEFINITE == <<"i", "n", "d", "e", "f", "i", "n", "i", "t", "e">>

\* an attribute the element does not carry: getAttribute yields a falsy value
Absent == <<>>

RECURSIVE DigitRun(_)
\* number of leading decimal digits of s
DigitRun(s) ==
  IF s # <<>> /\ Head(s) \in Digits THEN 1 + DigitRun(Tail(s)) ELSE 0

RECURSIVE IntOf(_)
\* value of a string of decimal digits (0 for the empty string)
IntOf(s) ==
  IF s = <<>> THEN 0
  ELSE IntOf(SubSeq(s, 1, Len(s) - 1)) * 10 + DigitVal(s[Len(s)])

RECURSIVE SkipSpaces(_)
SkipSpaces(s) ==
  IF s # <<>> /\ Head(s) = " " THEN SkipSpaces(Tail(s)) ELSE s

\* parseFloat of an unsigned string: digits, then optionally "." and digits;
\* the scan stops at the first character that cannot continue the literal.
UnsignedFloat(s) ==
  LET n == DigitRun(s)
      rest == SubSeq(s, n + 1, Len(s))
      hasDot == rest # <<>> /\ Head(rest) = "."
      f == IF hasDot THEN DigitRun(Tail(rest)) ELSE 0
      intPart == IntOf(SubSeq(s, 1, n))
      frac == IF f > 0 THEN DigitVal(rest[2]) ELSE 0
  IN IF n + f = 0 THEN NaN ELSE Num(intPart * 10 + frac)

\* parseFloat(str): leading white space and an optional sign are accepted,
\* NaN when no digit follows
parseFloat(str) ==
  LET s == SkipSpaces(str)
      signed == s # <<>> /\ Head(s) \in {"-", "+"}
      u == UnsignedFloat(IF signed THEN Tail(s) ELSE s)
  IN IF signed /\ Head(s) = "-" /\ IsNum(u) THEN Num(0 - u[2]) ELSE u

ToLower(c) == CASE c = "S" -> "s" [] c = "M" -> "m" [] OTHER -> c

\* s consists of one or more characters of the class [\d.]
IsDigitsOrDots(s) ==
  /\ s # <<>>
  /\ \A i \in 1..Len(s) : s[i] \in Digits \cup {"."}

\* timeStr.match(/^([\d.]+)(ms|s)$/i): <<number part, lower-cased unit>>, or
\* <<>> when the string does not match.  "m" and "s" are not in [\d.], so the
\* split is unique.
TimeMatch(timeStr) ==
  LET n == Len(timeStr)
  IN IF /\ n >= 3
        /\ ToLower(timeStr[n - 1]) = "m"
        /\ ToLower(timeStr[n]) = "s"
        /\ IsDigitsOrDots(SubSeq(timeStr, 1, n - 2))
       THEN <<SubSeq(timeStr, 1, n - 2), "ms">>
     ELSE IF /\ n >= 2
             /\ ToLower(timeStr[n]) = "s"
             /\ IsDigitsOrDots(SubSeq(timeStr, 1, n - 1))
       THEN <<SubSeq(timeStr, 1, n - 1), "s">>
     ELSE <<>>

\* the unit 's' handled like 'ms': the factor 1000 is lost
SecondsToMs_NoScale(value) == value

\* value * 1000 for unit 's'
SecondsToMs(value) == JsMul(value, Num(Whole(1000)))

\* parseTime(timeStr): milliseconds, or null when the string does not match
parseTime(timeStr) ==
  LET match == TimeMatch(timeStr)
  IN IF match = <<>> THEN Null
     ELSE LET value == parseFloat(match[1])
              unit == match[2]
          IN IF unit = "ms" THEN value ELSE SecondsToMs(value)

----------------------------------------------------------------------------
(* Directive Timing Resolver: parseAnimationTiming *)

\* the object literal parseAnimationTiming returns
Timing(endTime, isInfinite, baseDuration, isExplicitInfinite) ==
  [endTime |-> endTime, isInfinite |-> isInfinite,
   baseDuration |-> baseDuration, isExplicitInfinite |-> isExplicitInfinite]

\* element.getAttribute('begin') || '0s'
BeginAttrOf(element) ==
  IF element.begin # Absent THEN element.begin ELSE <<"0", "s">>

\* let baseDuration = 0; if (durAttr) { ... parseTime(durAttr) ... }
BaseDurationOf(durAttr) ==
  IF durAttr # Absent
    THEN LET parsedDur == parseTime(durAttr)
         IN IF parsedDur # Null THEN parsedDur ELSE Num(0)
    ELSE Num(0)

\* let beginTime = 0; parseTime(beginAttr)
BeginTimeOf(beginAttr) ==
  LET parsedBegin == parseTime(beginAttr)
  IN IF parsedBegin # Null THEN parsedBegin ELSE Num(0)

\* let repeatCount = 1; parseFloat(repeatCountAttr) when it is > 0
RepeatCountOf(repeatCountAttr) ==
  IF repeatCountAttr # Absent /\ repeatCountAttr # INDEFINITE
    THEN LET parsed == parseFloat(repeatCountAttr)
         IN IF parsed # NaN /\ JsGt(parsed, Num(0)) THEN parsed
            ELSE Num(Whole(1))
    ELSE Num(Whole(1))

\* let repeatDuration = null; parseTime(repeatDurAttr)
RepeatDurationOf(repeatDurAttr) ==
  IF repeatDurAttr # Absent /\ repeatDurAttr # INDEFINITE
    THEN parseTime(repeatDurAttr)
    ELSE Null

\* totalDuration: repeatDuration when known, else baseDuration * repeatCount
TotalDurationOf(repeatDuration, baseDuration, repeatCount) ==
  IF repeatDuration # Null THEN repeatDuration
  ELSE JsMul(baseDuration, repeatCount)

MAX_REASONABLE_DURATION == Num(Whole(3600 * 1000))

\* the part of parseAnimationTiming after the dur === 'indefinite' check
ResolveWithBase(element) ==
  LET baseDuration == BaseDurationOf(element.dur)
      beginTime == BeginTimeOf(BeginAttrOf(element))
      repeatCount == RepeatCountOf(element.repeatCount)
      repeatDuration == RepeatDurationOf(element.repeatDur)
      totalDuration == TotalDurationOf(repeatDuration, baseDuration,
                                       repeatCount)
  IN IF element.repeatCount = INDEFINITE
       THEN Timing(Null, TRUE, baseDuration, TRUE)
     ELSE IF element.repeatDur = INDEFINITE
       THEN Timing(Null, TRUE, baseDuration, TRUE)
     ELSE IF JsGt(totalDuration, MAX_REASONABLE_DURATION)
       THEN Timing(Null, TRUE, baseDuration, FALSE)
     ELSE Timing(JsAdd(beginTime, totalDuration), FALSE, baseDuration, FALSE)

\* the repeat sentinels examined before the dur sentinel
parseAnimationTiming_RepeatFirst(element) ==
  IF element.repeatCount = INDEFINITE \/ element.repeatDur = INDEFINITE
    THEN ResolveWithBase(element)
  ELSE IF element.dur = INDEFINITE
    THEN Timing(Null, TRUE, Null, FALSE)
  ELSE ResolveWithBase(element)

parseAnimationTiming(element) ==
  IF element.dur = INDEFINITE
    THEN Timing(Null, TRUE, Null, FALSE)
    ELSE ResolveWithBase(element)

----------------------------------------------------------------------------
(* Document-level reduction: analyzeAnimations *)

\* the tag list with its last entry forgotten
animationTags_NoColor ==
  <<"animate", "animateTransform", "animateMotion", "set">>

animationTags ==
  <<"animate", "animateTransform", "animateMotion", "set", "animateColor">>

\* svgElement.getElementsByTagName(tagName): the descendants with that tag
\* name, in document order
getElementsByTagName(svgElement, tagName) ==
  SelectSeq(svgElement, LAMBDA e : e.tag = tagName)

RECURSIVE VisitFrom(_, _)
\* the elements the two nested loops visit, in the order they visit them
VisitFrom(svgElement, t) ==
  IF t > Len(animationTags) THEN <<>>
  ELSE getElementsByTagName(svgElement, animationTags[t])
         \o VisitFrom(svgElement, t + 1)

Visited(svgElement) == VisitFrom(svgElement, 1)

\* the locals of analyzeAnimations before the loops
InitialLocals ==
  [maxEndTime |-> Num(0), hasAnimations |-> FALSE,
   hasInfiniteAnimations |-> FALSE,
   loopDurations |-> <<>>, infiniteLoopDurations |-> <<>>]

\* the guard written with >= instead of >
HasLoopCandidate_AllowsZero(timing) ==
  /\ timing.baseDuration # Null
  /\ IsNum(timing.baseDuration)
  /\ timing.baseDuration[2] >= 0

\* timing.baseDuration !== null && timing.baseDuration > 0
HasLoopCandidate(timing) ==
  timing.baseDuration # Null /\ JsGt(timing.baseDuration, Num(0))

\* one iteration of the inner loop body
\* the end time of the last finite window kept instead of the maximum
LoopBody_LastEndTime(l, timing) ==
  IF timing.isInfinite
    THEN [l EXCEPT
           !.hasAnimations = TRUE,
           !.hasInfiniteAnimations = TRUE,
           !.loopDurations =
              IF HasLoopCandidate(timing)
                THEN Append(@, timing.baseDuration) ELSE @,
           !.infiniteLoopDurations =
              IF HasLoopCandidate(timing) /\ timing.isExplicitInfinite
                THEN Append(@, timing.baseDuration) ELSE @]
  ELSE IF timing.endTime # Null
    THEN [l EXCEPT !.hasAnimations = TRUE, !.maxEndTime = timing.endTime]
  ELSE [l EXCEPT !.hasAnimations = TRUE]

LoopBody(l, timing) ==
  IF timing.isInfinite
    THEN [l EXCEPT
           !.hasAnimations = TRUE,
           !.hasInfiniteAnimations = TRUE,
           !.loopDurations =
              IF HasLoopCandidate(timing)
                THEN Append(@, timing.baseDuration) ELSE @,
           !.infiniteLoopDurations =
              IF HasLoopCandidate(timing) /\ timing.isExplicitInfinite
                THEN Append(@, timing.baseDuration) ELSE @]
  ELSE IF timing.endTime # Null
    THEN [l EXCEPT !.hasAnimations = TRUE,
                   !.maxEndTime = MathMax2(@, timing.endTime)]
  ELSE [l EXCEPT !.hasAnimations = TRUE]

RECURSIVE RunLoops(_, _)
\* the locals after the loops have visited the elements of seq
RunLoops(l, seq) ==
  IF seq = <<>> THEN l
  ELSE RunLoops(LoopBody(l, parseAnimationTiming(Head(seq))), Tail(seq))

REASONABLE_LOOP == Num(Whole(600 * 1000))

\* infiniteLoopDurations.filter(d => d <= 600 * 1000)
ReasonableLoops(infiniteLoopDurations) ==
  SelectSeq(infiniteLoopDurations, LAMBDA d : JsLe(d, REASONABLE_LOOP))

\* the reasonable loops reduced with Math.min
ExplicitLoopDuration_MinOfReasonable(infiniteLoopDurations) ==
  LET reasonableLoops == ReasonableLoops(infiniteLoopDurations)
  IN IF Len(reasonableLoops) > 0 THEN MathMin(reasonableLoops)
     ELSE MathMin(infiniteLoopDurations)

\* the all-too-long fallback reduced with Math.max
ExplicitLoopDuration_MaxFallback(infiniteLoopDurations) ==
  LET reasonableLoops == ReasonableLoops(infiniteLoopDurations)
  IN IF Len(reasonableLoops) > 0 THEN MathMax(reasonableLoops)
     ELSE MathMax(infiniteLoopDurations)

\* the branch taken when infiniteLoopDurations is not empty
ExplicitLoopDuration(infiniteLoopDurations) ==
  LET reasonableLoops == ReasonableLoops(infiniteLoopDurations)
  IN IF Len(reasonableLoops) > 0 THEN MathMax(reasonableLoops)
     ELSE MathMin(infiniteLoopDurations)

\* the heuristic branch reduced with Math.min
LoopDurationOf_MinFallback(hasInfiniteAnimations, loopDurations, infiniteLoopDurations) ==
  IF hasInfiniteAnimations /\ Len(loopDurations) > 0
    THEN IF Len(infiniteLoopDurations) > 0
           THEN ExplicitLoopDuration(infiniteLoopDurations)
           ELSE MathMin(loopDurations)
    ELSE Null

\* let loopDuration = null; if (hasInfiniteAnimations && ...) { ... }
LoopDurationOf(hasInfiniteAnimations, loopDurations, infiniteLoopDurations) ==
  IF hasInfiniteAnimations /\ Len(loopDurations) > 0
    THEN IF Len(infiniteLoopDurations) > 0
           THEN ExplicitLoopDuration(infiniteLoopDurations)
           ELSE MathMax(loopDurations)
    ELSE Null

\* the test maxEndTime > 0 left out
DurationOf_NoPositiveTest(hasAnimations, hasInfiniteAnimations, maxEndTime) ==
  IF hasAnimations /\ ~hasInfiniteAnimations THEN maxEndTime ELSE Null

\* the test of hasInfiniteAnimations left out
DurationOf_IgnoresInfinite(hasAnimations, hasInfiniteAnimations, maxEndTime) ==
  IF hasAnimations /\ JsGt(maxEndTime, Num(0)) THEN maxEndTime ELSE Null

\* hasAnimations && !hasInfiniteAnimations && maxEndTime > 0 ? maxEndTime : null
DurationOf(hasAnimations, hasInfiniteAnimations, maxEndTime) ==
  IF hasAnimations /\ ~hasInfiniteAnimations /\ JsGt(maxEndTime, Num(0))
    THEN maxEndTime ELSE Null

\* what analyzeAnimations computes from its locals l after the loops
AnimationInfo(l) ==
  [hasAnimations |-> l.hasAnimations,
   duration |-> DurationOf(l.hasAnimations, l.hasInfiniteAnimations,
                           l.maxEndTime),
   hasInfiniteAnimations |-> l.hasInfiniteAnimations,
   loopDuration |-> LoopDurationOf(l.hasInfiniteAnimations,
                                   l.loopDurations,
                                   l.infiniteLoopDurations)]

analyzeAnimations(svgElement) ==
  AnimationInfo(RunLoops(InitialLocals, Visited(svgElement)))

\* the timing computed for every visited element, in visiting order
TimingsOf(svgElement) ==
  LET v == Visited(svgElement)
  IN [i \in 1..Len(v) |->
        [element |-> v[i], timing |-> parseAnimationTiming(v[i])]]

----------------------------------------------------------------------------
(* Dimension Extractor: extractDimensions *)

RECURSIVE NumericRun(_)
\* length of the longest prefix of s made of characters of [\d.]
NumericRun(s) ==
  IF s # <<>> /\ Head(s) \in Digits \cup {"."}
    THEN 1 + NumericRun(Tail(s)) ELSE 0

\* parseNumericAttribute(value): the leading [\d.]+ run parsed as a float,
\* null when there is no such run or it is not a number
parseNumericAttribute(value) ==
  LET n == NumericRun(value)
  IN IF n = 0 THEN Null
     ELSE LET num == parseFloat(SubSeq(value, 1, n))
          IN IF num = NaN THEN Null ELSE num

RECURSIVE TrimLeft(_)
TrimLeft(s) == IF s # <<>> /\ Head(s) = " " THEN TrimLeft(Tail(s)) ELSE s

RECURSIVE TrimRight(_)
TrimRight(s) ==
  IF s # <<>> /\ s[Len(s)] = " "
    THEN TrimRight(SubSeq(s, 1, Len(s) - 1)) ELSE s

\* viewBox.trim()
Trim(s) == TrimRight(TrimLeft(s))

RECURSIVE Tokens(_, _)
\* the maximal runs of characters of s that are not in seps, in order
Tokens(s, seps) ==
  IF s = <<>> THEN <<>>
  ELSE IF Head(s) \in seps THEN Tokens(Tail(s), seps)
  ELSE LET k == CHOOSE n \in 1..Len(s) :
                  /\ \A i \in 1..n : s[i] \notin seps
                  /\ n = Len(s) \/ s[n + 1] \in seps
       IN <<SubSeq(s, 1, k)>> \o Tokens(SubSeq(s, k + 1, Len(s)), seps)

\* s.split(/\s+/) of a trimmed string: the empty string yields [""]
SplitWhitespace(s) ==
  IF s = <<>> THEN << <<>> >> ELSE Tokens(s, {" "})

\* what extractDimensions does: it returns { width, height } or throws
Returned(width, height) ==
  [threw |-> FALSE, width |-> width, height |-> height]
Thrown == [threw |-> TRUE, width |-> Null, height |-> Null]

\* width and height after the attribute pair was read (lines 54-66)
AttributeWidth(svgElement) ==
  IF svgElement.width # Absent
    THEN parseNumericAttribute(svgElement.width) ELSE Null
AttributeHeight(svgElement) ==
  IF svgElement.height # Absent
    THEN parseNumericAttribute(svgElement.height) ELSE Null

\* width === null || height === null || width <= 0 || height <= 0
DimensionsInvalid(width, height) ==
  width = Null \/ height = Null \/ JsLe(width, Num(0)) \/ JsLe(height, Num(0))

extractDimensions(svgElement) ==
  LET w0 == AttributeWidth(svgElement)
      h0 == AttributeHeight(svgElement)
      parts == SplitWhitespace(Trim(svgElement.viewBox))
      fallback == /\ (w0 = Null \/ h0 = Null)
                  /\ svgElement.viewBox # Absent
                  /\ Len(parts) = 4
      width == IF fallback THEN parseFloat(parts[3]) ELSE w0
      height == IF fallback THEN parseFloat(parts[4]) ELSE h0
  IN IF DimensionsInvalid(width, height) THEN Thrown
     ELSE Returned(width, height)

----------------------------------------------------------------------------
(* Documents *)

\* an element of the document: its tag name and its four timing attributes
Element(tag, dur, begin, repeatCount, repeatDur) ==
  [tag |-> tag, dur |-> dur, begin |-> begin,
   repeatCount |-> repeatCount, repeatDur |-> repeatDur]

\* the timing attributes <<dur, begin, repeatCount, repeatDur>> documents
\* are built from
TimingAttrs ==
  { \* finite windows
    <<Absent, Absent, Absent, Absent>>,
    <<<<"2", "s">>, <<"0", "s">>, <<"3">>, Absent>>,
    <<<<"1", "s">>, <<"1", "s">>, <<"1">>, Absent>>,
    <<<<"2", "s">>, Absent, Absent, Absent>>,
    <<<<"1", ".", "5", "s">>, Absent, <<"2", ".", "5">>, Absent>>,
    <<<<"1", "s">>, Absent, <<"3">>, <<"1", "5", "0", "0", "m", "s">>>>,
    <<<<"a", "b", "c">>, <<"1", "S">>, <<"-", "1">>, Absent>>,
    <<<<".", "s">>, Absent, Absent, Absent>>,
    <<<<"3", "6", "0", "0", "s">>, <<"1", "s">>, Absent, Absent>>,
    \* windows past the one hour ceiling
    <<<<"1", "s">>, Absent, <<"5", "0", "0", "0">>, Absent>>,
    <<<<"2", "s">>, <<"1", "s">>, <<"5", "0", "0", "0">>, Absent>>,
    <<Absent, Absent, Absent, <<"4", "0", "0", "0", "s">>>>,
    <<<<"1", "s">>, Absent, <<"5", "0", "0", "0">>, <<".", "s">>>>,
    \* dur="indefinite"
    <<INDEFINITE, Absent, Absent, Absent>>,
    <<INDEFINITE, <<"1", "s">>, INDEFINITE, INDEFINITE>>,
    \* repeatCount or repeatDur "indefinite"
    <<<<"1", "s">>, Absent, INDEFINITE, Absent>>,
    <<<<"5", "s">>, Absent, INDEFINITE, Absent>>,
    <<<<"7", "6", "s">>, <<"1", "s">>, INDEFINITE, <<"2", "s">>>>,
    <<<<"6", "0", "0", "s">>, Absent, <<"2">>, INDEFINITE>>,
    <<<<"7", "0", "0", "s">>, Absent, INDEFINITE, Absent>>,
    <<<<"9", "0", "0", "s">>, Absent, INDEFINITE, Absent>>,
    <<<<"4", "4", "4", "4", "4", "s">>, Absent, INDEFINITE, Absent>>,
    <<Absent, Absent, INDEFINITE, Absent>>,
    <<<<"0", "s">>, Absent, Absent, INDEFINITE>>,
    <<<<".", "s">>, Absent, INDEFINITE, Absent>> }

\* the elements documents are built from: two directive kinds with every
\* timing above, the other three kinds and a shape with a few of them
Elements ==
  {Element(t, a[1], a[2], a[3], a[4]) :
     t \in {"animate", "set"}, a \in TimingAttrs}
  \cup
  {Element(t, a[1], a[2], a[3], a[4]) :
     t \in {"animateTransform", "animateMotion", "animateColor", "rect"},
     a \in { <<<<"2", "s">>, Absent, Absent, Absent>>,
             <<<<"5", "s">>, Absent, INDEFINITE, Absent>> }}

----------------------------------------------------------------------------
(* State machine *)

NoResult ==
  [hasAnimations |-> FALSE, duration |-> Null,
   hasInfiniteAnimations |-> FALSE, loopDuration |-> Null]

\* no document element
NoRoot ==
  [present |-> FALSE, tagName |-> "", width |-> Absent, height |-> Absent,
   viewBox |-> Absent]

Undefined == <<"undefined">>

\* no option given on the command line
NoOptions ==
  [width |-> Undefined, w |-> Undefined, height |-> Undefined,
   h |-> Undefined, duration |-> Undefined, d |-> Undefined,
   fps |-> Undefined, f |-> Undefined, version |-> FALSE, positionals |-> 0]

\* the locals of main before they are assigned
NoLocals ==
  [finalWidth |-> Undefined, finalHeight |-> Undefined,
   durationMs |-> Undefined, finalFps |-> Undefined]

\* recordAnimation before it is called
NoRecording ==
  [duration |-> Null, browser |-> "null", page |-> "null",
   recorder |-> "null", elapsed |-> Num(0), waits |-> <<>>,
   progress |-> <<>>, failedAt |-> "none", thrown |-> "none",
   events |-> <<>>, ignored |-> {}, outcome |-> "none"]

\* the variables of the parts that are not running
SvgIdle == root = NoRoot /\ dims = Null /\ error = "none"
TimeIdle == timeArg = <<>> /\ timeOut = Null
RecIdle == rec = NoRecording
MainIdle ==
  /\ opts = NoOptions
  /\ locals = NoLocals
  /\ files = {}
  /\ stages = <<>>
  /\ exitCode = <<>>

Init ==
  /\ doc = <<>>
  /\ pc = "build"
  /\ trace = <<>>
  /\ result = NoResult
  /\ SvgIdle
  /\ TimeIdle
  /\ MainIdle
  /\ RecIdle

\* the document gains one more element (the input of the analysis)
AddElement ==
  /\ pc = "build"
  /\ Len(doc) < MaxElems
  /\ \E e \in Elements : doc' = Append(doc, e)
  /\ UNCHANGED <<pc, trace, result>>
  /\ UNCHANGED <<svgVars, timeVars, mainVars>>
  /\ UNCHANGED recVars

\* analyzeAnimations(svgElement) runs on the document
Analyze ==
  /\ pc = "build"
  /\ trace' = TimingsOf(doc)
  /\ result' = analyzeAnimations(doc)
  /\ pc' = "done"
  /\ UNCHANGED doc
  /\ UNCHANGED <<svgVars, timeVars, mainVars>>
  /\ UNCHANGED recVars

Next == AddElement \/ Analyze

Spec == Init /\ [][Next]_vars

----------------------------------------------------------------------------
(* extractDimensions on its own *)

\* the root elements extractDimensions is run on
DimRoots ==
  [present : {TRUE},
   tagName : {"svg"},
   width : {Absent, <<"1", "0", "0">>, <<"1", "0", "0", "p", "x">>, <<"0">>,
            <<"a", "b", "c">>, <<"1", ".", "5">>, <<"-", "5">>},
   height : {Absent, <<"5", "0">>, <<"0">>, <<"x">>},
   viewBox : {Absent,
              <<"0", " ", "0", " ", "1", "0", "0", " ", "5", "0">>,
              <<"0", ",", "0", ",", "1", "0", "0", ",", "5", "0">>,
              <<"0", ",", " ", "0", ",", " ", "1", "0", "0", ",", " ",
                "5", "0">>,
              <<" ", "0", " ", " ", "0", " ", "2", "0", " ", "1", "0", " ">>,
              <<"a", " ", "b", " ", "c", " ", "d">>,
              <<"0", " ", "0", " ", "0", " ", "0">>,
              <<"0", " ", "0", " ", "-", "5", " ", "1", "0">>,
              <<"0", " ", "0", " ", "1", "0", "0">>,
              <<"0", " ", "0", " ", "1", ".", "5", " ", "2", ".", "5">>}]

InitDims ==
  /\ pc = "dims"
  /\ root \in DimRoots
  /\ dims = Null
  /\ error = "none"
  /\ doc = <<>> /\ trace = <<>> /\ result = NoResult
  /\ TimeIdle
  /\ MainIdle
  /\ RecIdle

\* extractDimensions(svgElement) runs on the root
ExtractDimensions ==
  /\ pc = "dims"
  /\ LET r == extractDimensions(root)
     IN IF r.threw
          THEN dims' = Null /\ error' = "ValidationError"
          ELSE dims' = [width |-> r.width, height |-> r.height]
               /\ error' = "none"
  /\ pc' = "dims-done"
  /\ UNCHANGED <<doc, trace, result, root, timeVars, mainVars>>
  /\ UNCHANGED recVars

NextDims == ExtractDimensions

SpecDims == InitDims /\ [][NextDims]_vars

----------------------------------------------------------------------------
(* parseTime on its own *)

\* longest time string tried character by character
MaxStrLen == 3

\* the characters the tried strings are made of
TimeAlphabet == {"1", "5", ".", "s", "S", "m", "M", "-", " ", "a"}

RECURSIVE StringsUpTo(_)
\* every string over TimeAlphabet of length at most n
StringsUpTo(n) ==
  IF n = 0 THEN {<<>>}
  ELSE LET shorter == StringsUpTo(n - 1)
       IN shorter \cup {Append(t, c) : t \in shorter, c \in TimeAlphabet}

\* the numbers of s have at most one fractional digit
OneFractionDigit(s) ==
  \A i \in 1..(Len(s) - 2) :
    ~(s[i] = "." /\ s[i + 1] \in Digits /\ s[i + 2] \in Digits)

\* the strings parseTime is called with
TimeStrings ==
  {t \in StringsUpTo(MaxStrLen) : OneFractionDigit(t)}
    \cup {<<"1", "0", "0", "0", "m", "s">>, <<"1", ".", "5", "s">>,
          <<"a", "b", "c">>, <<"1", ".", "5", "M", "S">>,
          <<"1", "5", "0", "0", "m", "s", " ">>, <<"+", "1", "s">>,
          <<"1", "m", "i", "n">>, <<"1", "5", "0", "0">>}

InitTime ==
  /\ pc = "time"
  /\ timeArg \in TimeStrings
  /\ timeOut = Null
  /\ doc = <<>> /\ trace = <<>> /\ result = NoResult
  /\ SvgIdle
  /\ MainIdle
  /\ RecIdle

\* parseTime(timeStr) is called; it has no throw statement and every
\* operation of it is total, so it always returns
ParseTime ==
  /\ pc = "time"
  /\ timeOut' = parseTime(timeArg)
  /\ pc' = "time-done"
  /\ UNCHANGED <<doc, trace, result, timeArg, svgVars, mainVars>>
  /\ UNCHANGED recVars

NextTime == ParseTime

SpecTime == InitTime /\ [][NextTime]_vars

----------------------------------------------------------------------------
(* analyzeSVG: root test, dimensions, animations *)

\* most directives in a document given to analyzeSVG
MaxDirectives == 1

\* the root elements analyzeSVG meets: none, a foreign one, and svg roots
\* with and without usable dimensions
SvgRoots ==
  { NoRoot,
    [present |-> TRUE, tagName |-> "html", width |-> <<"1", "0", "0">>,
     height |-> <<"5", "0">>, viewBox |-> Absent],
    [present |-> TRUE, tagName |-> "svg", width |-> <<"1", "0", "0">>,
     height |-> <<"5", "0">>, viewBox |-> Absent],
    [present |-> TRUE, tagName |-> "svg", width |-> Absent,
     height |-> Absent,
     viewBox |-> <<"0", " ", "0", " ", "2", "0", " ", "1", "0">>],
    [present |-> TRUE, tagName |-> "svg", width |-> <<"0">>,
     height |-> <<"0">>,
     viewBox |-> <<"0", " ", "0", " ", "2", "0", " ", "1", "0">>],
    [present |-> TRUE, tagName |-> "svg", width |-> Absent,
     height |-> <<"5", "0">>, viewBox |-> Absent] }

\* directives with every timing attribute present, absent or malformed
SvgDirectives ==
  {Element("animate", d, b, rc, rd) :
     d \in {Absent, <<"2", "s">>, <<"a", "b", "c">>, <<".", "s">>},
     b \in {Absent, <<"1", "s">>, <<"x">>},
     rc \in {Absent, <<"3">>, <<"a", "b", "c">>},
     rd \in {Absent, <<"4", "s">>, <<"a", "b", "c">>}}

RECURSIVE DocsUpTo(_)
\* the documents of at most n directives
DocsUpTo(n) ==
  IF n = 0 THEN {<<>>}
  ELSE LET shorter == DocsUpTo(n - 1)
       IN shorter \cup {Append(d, e) : d \in shorter, e \in SvgDirectives}

InitSVG ==
  /\ pc = "svg"
  /\ root \in SvgRoots
  /\ doc \in DocsUpTo(MaxDirectives)
  /\ dims = Null
  /\ error = "none"
  /\ trace = <<>> /\ result = NoResult
  /\ TimeIdle
  /\ MainIdle
  /\ RecIdle

\* !svgElement || svgElement.tagName !== 'svg'
NoSvgRoot(svgElement) == ~svgElement.present \/ svgElement.tagName # "svg"

\* analyzeSVG threw a ValidationError
AnalysisThrown == [threw |-> TRUE, dimensions |-> Null, info |-> NoResult]

\* analyzeSVG once extractDimensions has returned or thrown
AnalysisWith(dimensions, children) ==
  IF dimensions.threw THEN AnalysisThrown
  ELSE [threw |-> FALSE,
        dimensions |-> [width |-> dimensions.width,
                        height |-> dimensions.height],
        info |-> analyzeAnimations(children)]

\* analyzeSVG(svgPath): what it returns, or that it threw
analyzeSVG(svgElement, children) ==
  IF NoSvgRoot(svgElement) THEN AnalysisThrown
  ELSE AnalysisWith(extractDimensions(svgElement), children)

\* the caller of analyzeSVG receives a: the analysis, or the error
ReceiveAnalysis(a) ==
  /\ error' = IF a.threw THEN "ValidationError" ELSE "none"
  /\ dims' = a.dimensions
  /\ result' = a.info
  /\ trace' = IF a.threw THEN <<>> ELSE TimingsOf(doc)

\* analyzeSVG runs on the parsed document
AnalyzeSVG ==
  /\ pc = "svg"
  /\ ReceiveAnalysis(analyzeSVG(root, doc))
  /\ pc' = "svg-done"
  /\ UNCHANGED <<doc, root, timeVars, mainVars>>
  /\ UNCHANGED recVars

NextSVG == AnalyzeSVG

SpecSVG == InitSVG /\ [][NextSVG]_vars

----------------------------------------------------------------------------
(* Orchestrator: main *)

\* an option value that is a string and not a number, such as 'abc'
Str == <<"str">>

\* the truthiness of an option value
Truthy(v) == v = Str \/ (IsNum(v) /\ v[2] # 0)

\* a ?? b
Coalesce(a, b) == IF a = Undefined THEN b ELSE a

\* a || b
OrElse(a, b) == IF Truthy(a) THEN a ELSE b

\* Number(value)
ToNumber(value) == IF IsNum(value) THEN value ELSE NaN

\* the normalised options (long form first, then short form)
OptWidth(o) == Coalesce(o.width, o.w)
OptHeight(o) == Coalesce(o.height, o.h)
OptDuration(o) == Coalesce(o.duration, o.d)
OptFps(o) == Coalesce(Coalesce(o.fps, o.f), Num(Whole(30)))

\* only the isNaN test of validatePositiveNumber
Invalid_AllowsNonPositive(value) == ToNumber(value) = NaN

\* validatePositiveNumber(value, name) throws a plain Error
Invalid(value) ==
  LET num == ToNumber(value) IN num = NaN \/ num[2] <= 0

\* the outcome of a step of main: the error thrown ("none" when it
\* completed) and the value it produced
Outcome(thrown, value) == [thrown |-> thrown, value |-> value]

\* the branch for infinite animations never finding a loop duration
InferredDuration_IgnoresLoop(svgAnalysis) ==
  IF svgAnalysis.hasInfiniteAnimations
    THEN Outcome("ValidationError", Undefined)
  ELSE IF ~svgAnalysis.hasAnimations
    THEN Outcome("ValidationError", Undefined)
  ELSE IF svgAnalysis.duration = Null
    THEN Outcome("ValidationError", Undefined)
  ELSE Outcome("none", svgAnalysis.duration)

\* the branches of the duration decision that follow if (duration)
InferredDuration(svgAnalysis) ==
  IF svgAnalysis.hasInfiniteAnimations
    THEN IF /\ svgAnalysis.loopDuration # Null
            /\ JsGt(svgAnalysis.loopDuration, Num(0))
           THEN Outcome("none", svgAnalysis.loopDuration)
           ELSE Outcome("ValidationError", Undefined)
  ELSE IF ~svgAnalysis.hasAnimations
    THEN Outcome("ValidationError", Undefined)
  ELSE IF svgAnalysis.duration = Null
    THEN Outcome("ValidationError", Undefined)
  ELSE Outcome("none", svgAnalysis.duration)

\* the duration decision: durationMs, or the error thrown
DecideDuration(duration, svgAnalysis) ==
  IF Truthy(duration)
    THEN IF Invalid(duration) THEN Outcome("Error", Undefined)
         ELSE Outcome("none", JsMul(ToNumber(duration), Num(Whole(1000))))
    ELSE InferredDuration(svgAnalysis)

\* every error treated as a validation error
ExitCodeOf_AlwaysOne(kind) == 1

\* the catch block of main: the exit code for each kind of error
ExitCodeOf(kind) ==
  CASE kind = "ValidationError" -> 1
    [] kind = "ProcessingError" -> 2
    [] kind = "SystemError" -> 3
    [] OTHER -> 99

\* the documents main is run on: no animation, a finite one, a loop of 5s,
\* an endless one without a loop duration, one whose end is not a number,
\* a finite one beside a loop
MainDocs ==
  { <<>>,
    <<Element("animate", <<"2", "s">>, Absent, Absent, Absent)>>,
    <<Element("animate", <<"5", "s">>, Absent, INDEFINITE, Absent)>>,
    <<Element("animate", INDEFINITE, Absent, Absent, Absent)>>,
    <<Element("animate", <<".", "s">>, Absent, Absent, Absent)>>,
    <<Element("animate", <<"2", "s">>, Absent, Absent, Absent),
      Element("set", <<"3", "s">>, Absent, Absent, INDEFINITE)>> }

\* the roots main is run on: dimensions from the attributes, none, no root
MainRoots ==
  { [present |-> TRUE, tagName |-> "svg", width |-> <<"1", "0", "0">>,
     height |-> <<"5", "0">>, viewBox |-> Absent],
    [present |-> TRUE, tagName |-> "svg", width |-> Absent,
     height |-> Absent, viewBox |-> Absent],
    NoRoot }

\* the command lines with both positional arguments
MainOptions ==
  [width : {Undefined, Num(Whole(640)), Num(0 - Whole(1))},
   w : {Undefined, Num(Whole(320))},
   height : {Undefined, Num(Whole(480))},
   h : {Undefined},
   duration : {Undefined, Num(Whole(5)), Num(0)},
   d : {Undefined, Num(Whole(2)), Num(0 - Whole(1)), Str},
   fps : {Undefined, Num(Whole(60)), Num(0)},
   f : {Undefined},
   version : {FALSE},
   positionals : {2}]

\* the command lines that ask for the version or lack an argument
ShortOptions ==
  {[NoOptions EXCEPT !.version = v, !.positionals = n, !.d = d] :
     v \in BOOLEAN, n \in 0..2, d \in {Undefined, Num(Whole(2))}}

InitMain ==
  /\ pc = "main"
  /\ \/ opts \in MainOptions /\ doc \in MainDocs /\ root \in MainRoots
     \/ /\ opts \in {o \in ShortOptions : o.version \/ o.positionals < 2}
        /\ doc = <<>>
        /\ root = NoRoot
  /\ dims = Null
  /\ error = "none"
  /\ trace = <<>> /\ result = NoResult
  /\ locals = NoLocals
  /\ files = {}
  /\ stages = <<>>
  /\ exitCode = <<>>
  /\ TimeIdle
  /\ RecIdle

\* an error of the given kind reaches the catch block, which exits
Throw(kind) ==
  /\ error' = kind
  /\ exitCode' = <<ExitCodeOf(kind)>>
  /\ pc' = "exited"

\* --version, or fewer than two positional arguments: print and exit(0)
M_Usage ==
  /\ pc = "main"
  /\ opts.version \/ opts.positionals < 2
  /\ exitCode' = <<0>>
  /\ pc' = "exited"
  /\ UNCHANGED <<doc, trace, result, root, dims, error, timeVars,
                 opts, locals, files, stages>>
  /\ UNCHANGED recVars

\* the input file is tested and the toolchain check is left out
M_FileExists_SkipsCheck ==
  /\ pc = "main"
  /\ ~opts.version /\ opts.positionals >= 2
  /\ \E exists \in BOOLEAN :
       IF exists
         THEN pc' = "analyze" /\ UNCHANGED <<error, exitCode>>
         ELSE Throw("ValidationError")
  /\ UNCHANGED <<doc, trace, result, root, dims, timeVars,
                 opts, locals, files, stages>>
  /\ UNCHANGED recVars

\* fileExists(inputPath): the input file is there or it is not
M_FileExists ==
  /\ pc = "main"
  /\ ~opts.version /\ opts.positionals >= 2
  /\ \E exists \in BOOLEAN :
       IF exists
         THEN pc' = "checkFFmpeg" /\ UNCHANGED <<error, exitCode>>
         ELSE Throw("ValidationError")
  /\ UNCHANGED <<doc, trace, result, root, dims, timeVars,
                 opts, locals, files, stages>>
  /\ UNCHANGED recVars

\* checkFFmpeg(): 'ffmpeg -version' runs or it does not
M_CheckFFmpeg ==
  /\ pc = "checkFFmpeg"
  /\ stages' = Append(stages, "checkFFmpeg")
  /\ \E installed \in BOOLEAN :
       IF installed
         THEN pc' = "analyze" /\ UNCHANGED <<error, exitCode>>
         ELSE Throw("SystemError")
  /\ UNCHANGED <<doc, trace, result, root, dims, timeVars,
                 opts, locals, files>>
  /\ UNCHANGED recVars

\* svgAnalysis = await analyzeSVG(inputPath)
M_AnalyzeSVG ==
  /\ pc = "analyze"
  /\ stages' = Append(stages, "analyzeSVG")
  /\ ReceiveAnalysis(analyzeSVG(root, doc))
  /\ IF error' = "none"
       THEN pc' = "decide" /\ UNCHANGED exitCode
       ELSE exitCode' = <<ExitCodeOf(error')>> /\ pc' = "exited"
  /\ UNCHANGED <<doc, root, timeVars, opts, locals, files>>
  /\ UNCHANGED recVars

\* the locals of main as far as lines 80-124 assign them, and the error
\* that stopped the assignments ("none" when all four are assigned)
Decide(o, dimensions, svgAnalysis) ==
  LET finalWidth == OrElse(OptWidth(o), dimensions.width)
      finalHeight == OrElse(OptHeight(o), dimensions.height)
      decided == DecideDuration(OptDuration(o), svgAnalysis)
      l1 == [NoLocals EXCEPT !.finalWidth = ToNumber(finalWidth)]
      l2 == [l1 EXCEPT !.finalHeight = ToNumber(finalHeight)]
      l3 == [l2 EXCEPT !.durationMs = decided.value]
      l4 == [l3 EXCEPT !.finalFps = ToNumber(OptFps(o))]
  IN IF Invalid(finalWidth) THEN Outcome("Error", NoLocals)
     ELSE IF Invalid(finalHeight) THEN Outcome("Error", l1)
     ELSE IF decided.thrown # "none" THEN Outcome(decided.thrown, l2)
     ELSE IF Invalid(OptFps(o)) THEN Outcome("Error", l3)
     ELSE Outcome("none", l4)

\* main goes on with the locals r.value, or r.thrown reaches the catch block
Decided(r) ==
  /\ locals' = r.value
  /\ IF r.thrown = "none"
       THEN pc' = "generate" /\ UNCHANGED <<error, exitCode>>
       ELSE Throw(r.thrown)

\* dimensions, duration and frame rate are decided and validated
M_Decide ==
  /\ pc = "decide"
  /\ Decided(Decide(opts, dims, result))
  /\ UNCHANGED <<doc, trace, result, root, dims, timeVars,
                 opts, files, stages>>
  /\ UNCHANGED recVars

\* generateHTMLFile(..., tempHtmlPath): the page is written or writeFile
\* fails
M_GenerateHTML ==
  /\ pc = "generate"
  /\ stages' = Append(stages, "generateHTMLFile")
  /\ \E written \in BOOLEAN :
       IF written
         THEN /\ files' = files \cup {"html"}
              /\ pc' = "record"
              /\ UNCHANGED <<error, exitCode>>
         ELSE Throw("Error") /\ UNCHANGED files
  /\ UNCHANGED <<doc, trace, result, root, dims, timeVars, opts, locals>>
  /\ UNCHANGED recVars

\* recordAnimation(tempHtmlPath, tempVideoPath, ...): it completes with the
\* recording written, or fails with a ProcessingError before or after the
\* recorder created its file
M_Record ==
  /\ pc = "record"
  /\ stages' = Append(stages, "recordAnimation")
  /\ \E recorded \in BOOLEAN, started \in BOOLEAN :
       /\ files' = IF recorded \/ started THEN files \cup {"webm"} ELSE files
       /\ IF recorded
            THEN pc' = "process" /\ UNCHANGED <<error, exitCode>>
            ELSE Throw("ProcessingError")
  /\ UNCHANGED <<doc, trace, result, root, dims, timeVars, opts, locals>>
  /\ UNCHANGED recVars

\* processVideo(tempVideoPath, outputPath, ...): ffmpeg ends or errors
M_ProcessVideo ==
  /\ pc = "process"
  /\ stages' = Append(stages, "processVideo")
  /\ \E converted \in BOOLEAN :
       IF converted
         THEN pc' = "deleteHtml" /\ UNCHANGED <<error, exitCode>>
         ELSE Throw("ProcessingError")
  /\ UNCHANGED <<doc, trace, result, root, dims, timeVars,
                 opts, locals, files>>
  /\ UNCHANGED recVars

\* deleteFile(tempHtmlPath): unlink succeeds, or fails with an error other
\* than ENOENT, which deleteFile throws again
M_DeleteHtml ==
  /\ pc = "deleteHtml"
  /\ \E unlinked \in BOOLEAN :
       IF unlinked
         THEN /\ files' = files \ {"html"}
              /\ pc' = "deleteVideo"
              /\ UNCHANGED <<error, exitCode>>
         ELSE Throw("Error") /\ UNCHANGED files
  /\ UNCHANGED <<doc, trace, result, root, dims, timeVars,
                 opts, locals, stages>>
  /\ UNCHANGED recVars

\* deleteFile(tempVideoPath), after which main returns and the process ends
M_DeleteVideo ==
  /\ pc = "deleteVideo"
  /\ \E unlinked \in BOOLEAN :
       IF unlinked
         THEN /\ files' = files \ {"webm"}
              /\ pc' = "exited"
              /\ exitCode' = <<0>>
              /\ UNCHANGED error
         ELSE Throw("Error") /\ UNCHANGED files
  /\ UNCHANGED <<doc, trace, result, root, dims, timeVars,
                 opts, locals, stages>>
  /\ UNCHANGED recVars

NextMain ==
  \/ M_Usage
  \/ M_FileExists
  \/ M_CheckFFmpeg
  \/ M_AnalyzeSVG
  \/ M_Decide
  \/ M_GenerateHTML
  \/ M_Record
  \/ M_ProcessVideo
  \/ M_DeleteHtml
  \/ M_DeleteVideo

SpecMain == InitMain /\ [][NextMain]_vars

----------------------------------------------------------------------------
(* Recorder: recordAnimation *)

\* longest capture tried, in seconds
MaxSeconds == 3

\* a < b, false when either is NaN
JsLt(a, b) == IsNum(a) /\ IsNum(b) /\ a[2] < b[2]

\* a - b
JsSub(a, b) == IF IsNum(a) /\ IsNum(b) THEN Num(a[2] - b[2]) ELSE NaN

\* const updateInterval = 1000
updateInterval == Num(Whole(1000))

\* every wait lasts a whole interval
WaitTime_FullInterval(duration, elapsed) == updateInterval

\* Math.min(updateInterval, duration - elapsed)
WaitTime(duration, elapsed) ==
  MathMin2(updateInterval, JsSub(duration, elapsed))

\* Math.min(100, Math.round((elapsed / duration) * 100)) for duration > 0;
\* Math.round of a positive x is the integer part of x + 1/2
ProgressOf(elapsed, duration) ==
  MathMin2(Num(Whole(100)),
           Num(Whole((200 * elapsed[2] + duration[2])
                       \div (2 * duration[2]))))

\* options.duration: every quarter of a second up to MaxSeconds, two
\* fractional values, and 0
Durations ==
  {Num(Whole(250 * k)) : k \in 0..(4 * MaxSeconds)}
    \cup {Num(1), Num(15005)}

InitRecorder ==
  /\ pc = "launch"
  /\ \E d \in Durations : rec = [NoRecording EXCEPT !.duration = d]
  /\ doc = <<>> /\ trace = <<>> /\ result = NoResult
  /\ SvgIdle
  /\ TimeIdle
  /\ MainIdle

\* an awaited call of the try block rejected: the catch block wraps the
\* error into a ProcessingError, which is thrown once finally has run
Caught(step) ==
  /\ rec' = [rec EXCEPT !.failedAt = step, !.thrown = "ProcessingError"]
  /\ pc' = "finally-stop"

\* browser = await puppeteer.launch(...)
R_Launch ==
  /\ pc = "launch"
  /\ \E ok \in BOOLEAN :
       IF ok THEN rec' = [rec EXCEPT !.browser = "open"] /\ pc' = "newPage"
             ELSE Caught("launch")
  /\ UNCHANGED <<doc, trace, result, svgVars, timeVars, mainVars>>

\* page = await browser.newPage()
R_NewPage ==
  /\ pc = "newPage"
  /\ \E ok \in BOOLEAN :
       IF ok THEN rec' = [rec EXCEPT !.page = "open"] /\ pc' = "setViewport"
             ELSE Caught("newPage")
  /\ UNCHANGED <<doc, trace, result, svgVars, timeVars, mainVars>>

\* await page.setViewport(...)
R_SetViewport ==
  /\ pc = "setViewport"
  /\ \E ok \in BOOLEAN :
       IF ok THEN pc' = "newRecorder" /\ UNCHANGED rec
             ELSE Caught("setViewport")
  /\ UNCHANGED <<doc, trace, result, svgVars, timeVars, mainVars>>

\* recorder = new PuppeteerScreenRecorder(page, ...)
R_NewRecorder ==
  /\ pc = "newRecorder"
  /\ \E ok \in BOOLEAN :
       IF ok THEN rec' = [rec EXCEPT !.recorder = "created"] /\ pc' = "goto"
             ELSE Caught("newRecorder")
  /\ UNCHANGED <<doc, trace, result, svgVars, timeVars, mainVars>>

\* the step after each of the three awaits between the constructor and
\* recorder.start
AfterLoading(step) ==
  CASE step = "goto" -> "waitForSelector"
    [] step = "waitForSelector" -> "settle"
    [] step = "settle" -> "start"

\* await page.goto(...), page.waitForSelector('img'), page.waitForTimeout(500)
R_Load ==
  /\ pc \in {"goto", "waitForSelector", "settle"}
  /\ \E ok \in BOOLEAN :
       IF ok THEN pc' = AfterLoading(pc) /\ UNCHANGED rec
             ELSE Caught(pc)
  /\ UNCHANGED <<doc, trace, result, svgVars, timeVars, mainVars>>

\* await recorder.start(outputPath)
R_Start ==
  /\ pc = "start"
  /\ \E ok \in BOOLEAN :
       IF ok THEN /\ rec' = [rec EXCEPT !.recorder = "recording",
                                        !.events = Append(@, "recorder.start")]
                  /\ pc' = "loop"
             ELSE Caught("start")
  /\ UNCHANGED <<doc, trace, result, svgVars, timeVars, mainVars>>

\* rec after one pass of the wait loop that waited waitTime
Waited(r, waitTime) ==
  [r EXCEPT !.elapsed = JsAdd(@, waitTime),
            !.waits = Append(@, waitTime),
            !.progress = Append(@, ProgressOf(JsAdd(r.elapsed, waitTime),
                                              r.duration))]

\* one pass of while (elapsed < duration): wait, add, report progress
R_Wait ==
  /\ pc = "loop"
  /\ JsLt(rec.elapsed, rec.duration)
  /\ \E ok \in BOOLEAN :
       IF ok THEN /\ rec' = Waited(rec, WaitTime(rec.duration, rec.elapsed))
                  /\ pc' = "loop"
             ELSE Caught("loop")
  /\ UNCHANGED <<doc, trace, result, svgVars, timeVars, mainVars>>

\* the loop is left and recorder.stop() is awaited
R_Stop ==
  /\ pc = "loop"
  /\ ~JsLt(rec.elapsed, rec.duration)
  /\ \E ok \in BOOLEAN :
       IF ok THEN /\ rec' = [rec EXCEPT !.recorder = "stopped",
                                        !.events = Append(@, "recorder.stop")]
                  /\ pc' = "finally-stop"
             ELSE Caught("stop")
  /\ UNCHANGED <<doc, trace, result, svgVars, timeVars, mainVars>>

\* a cleanup call rejected and its error leaves the finally block
CleanupError_Rethrown(r, step) ==
  [r EXCEPT !.thrown = "Error", !.ignored = @ \cup {step}]

\* a cleanup call rejected: catch { /* ignore */ }
CleanupError(r, step) == [r EXCEPT !.ignored = @ \cup {step}]

\* finally: if (recorder) try { await recorder.stop() } catch {}
R_FinallyStop ==
  /\ pc = "finally-stop"
  /\ IF rec.recorder = "null" THEN UNCHANGED rec
     ELSE \E ok \in BOOLEAN :
            LET called == [rec EXCEPT !.events = Append(@, "recorder.stop")]
            IN rec' = IF ok THEN [called EXCEPT !.recorder = "stopped"]
                            ELSE CleanupError(called, "recorder.stop")
  /\ pc' = "finally-page"
  /\ UNCHANGED <<doc, trace, result, svgVars, timeVars, mainVars>>

\* finally: if (page) try { await page.close() } catch {}
R_FinallyPage ==
  /\ pc = "finally-page"
  /\ IF rec.page = "null" THEN UNCHANGED rec
     ELSE \E ok \in BOOLEAN :
            LET called == [rec EXCEPT !.events = Append(@, "page.close")]
            IN rec' = IF ok THEN [called EXCEPT !.page = "closed"]
                            ELSE CleanupError(called, "page.close")
  /\ pc' = "finally-browser"
  /\ UNCHANGED <<doc, trace, result, svgVars, timeVars, mainVars>>

\* finally: if (browser) try { await browser.close() } catch {}
R_FinallyBrowser ==
  /\ pc = "finally-browser"
  /\ IF rec.browser = "null" THEN UNCHANGED rec
     ELSE \E ok \in BOOLEAN :
            LET called == [rec EXCEPT !.events = Append(@, "browser.close")]
            IN rec' = IF ok THEN [called EXCEPT !.browser = "closed"]
                            ELSE CleanupError(called, "browser.close")
  /\ pc' = "finally-done"
  /\ UNCHANGED <<doc, trace, result, svgVars, timeVars, mainVars>>

\* the call ends: the promise resolves, or rejects with what was thrown
R_Settle ==
  /\ pc = "finally-done"
  /\ rec' = [rec EXCEPT !.outcome =
               IF rec.thrown = "none" THEN "returned" ELSE rec.thrown]
  /\ pc' = "settled"
  /\ UNCHANGED <<doc, trace, result, svgVars, timeVars, mainVars>>

NextRecorder ==
  \/ R_Launch
  \/ R_NewPage
  \/ R_SetViewport
  \/ R_NewRecorder
  \/ R_Load
  \/ R_Start
  \/ R_Wait
  \/ R_Stop
  \/ R_FinallyStop
  \/ R_FinallyPage
  \/ R_FinallyBrowser
  \/ R_Settle

SpecRecorder == InitRecorder /\ [][NextRecorder]_vars

\* every awaited call settles and the continuation then runs
SpecRecorderFair == SpecRecorder /\ WF_vars(NextRecorder)

----------------------------------------------------------------------------
(* Vocabulary of the properties *)

\* the five directive kinds
DirectiveKinds ==
  {"animate", "animateTransform", "animateMotion", "set", "animateColor"}

\* the largest and the smallest member of a non-empty set of integers
SetMax(S) == CHOOSE x \in S : \A y \in S : y <= x
SetMin(S) == CHOOSE x \in S : \A y \in S : x <= y

\* the timing windows of the analysed document
Windows == {trace[i].timing : i \in DOMAIN trace}

InfiniteWindows == {w \in Windows : w.isInfinite}

\* the element is explicit-forever: a repeat attribute is "indefinite" and
\* the dur attribute is not
IsExplicitForever(e) ==
  /\ e.dur # INDEFINITE
  /\ e.repeatCount = INDEFINITE \/ e.repeatDur = INDEFINITE

\* the base durations of the explicit-forever windows
ExplicitBases ==
  {w.baseDuration[2] : w \in {x \in Windows : /\ x.isExplicitInfinite
                                             /\ IsNum(x.baseDuration)}}

\* the base durations of all infinite windows that have one
InfiniteBases ==
  {w.baseDuration[2] : w \in {x \in InfiniteWindows : IsNum(x.baseDuration)}}

\* v when it is a number, 0 when the attribute did not yield one
OrZero(v) == IF IsNum(v) THEN v ELSE Num(0)

\* begin offset + total span of a directive, an absent or unparseable
\* attribute counting as its default
ClaimedEndTime(e) ==
  LET begin == OrZero(BeginTimeOf(BeginAttrOf(e)))
      base == OrZero(BaseDurationOf(e.dur))
      repeatDur == RepeatDurationOf(e.repeatDur)
      span == IF IsNum(repeatDur) THEN repeatDur
              ELSE JsMul(base, RepeatCountOf(e.repeatCount))
  IN begin[2] + span[2]

\* the visited directives are exactly two, with these dur attributes, and
\* both are explicit-forever
TwoExplicitForever(dur1, dur2) ==
  /\ Len(trace) = 2
  /\ \E i, j \in {1, 2} : /\ i # j
                          /\ trace[i].element.dur = dur1
                          /\ trace[j].element.dur = dur2
  /\ \A i \in {1, 2} : IsExplicitForever(trace[i].element)

----------------------------------------------------------------------------
(* Properties *)

\* C1: duration is non-null only if hasAnimations is true and
\* hasInfiniteAnimations is false, loopDuration is non-null only if
\* hasInfiniteAnimations is true, and the two are never both non-null.
C1_ResultShape ==
  pc = "done" =>
    /\ result.duration # Null =>
         result.hasAnimations /\ ~result.hasInfiniteAnimations
    /\ result.loopDuration # Null => result.hasInfiniteAnimations
    /\ ~(result.duration # Null /\ result.loopDuration # Null)

\* a document with an infinite directive that has a loop and a finite
\* directive that ends later than 0: only loopDuration is reported
C1_Witness ==
  /\ pc = "done"
  /\ result.loopDuration # Null
  /\ result.duration = Null
  /\ \E w \in Windows : ~w.isInfinite /\ JsGt(w.endTime, Num(0))

\* C2: when no directive resolves to an infinite window, duration equals the
\* maximum over all directives of begin offset + total span, and is null
\* when that maximum is zero or there are no directives.
C2_FiniteMaximum ==
  (pc = "done" /\ InfiniteWindows = {}) =>
    LET ends == {ClaimedEndTime(trace[i].element) : i \in DOMAIN trace}
        m == IF ends = {} THEN 0 ELSE SetMax(ends)
    IN result.duration = IF m > 0 THEN Num(m) ELSE Null

C4_MinOfPlaceholders ==
  (/\ pc = "done"
   /\ ExplicitBases # {}
   /\ \A b \in ExplicitBases : b > Whole(600000)) =>
    result.loopDuration = Num(SetMin(ExplicitBases))

\* two different explicit-forever durations, both above the ceiling
C4_Witness ==
  /\ pc = "done"
  /\ Cardinality(ExplicitBases) = 2
  /\ \A b \in ExplicitBases : b > Whole(600000)
  /\ result.loopDuration = Num(SetMin(ExplicitBases))

\* C5 as stated: two explicit-forever directives with dur="700s" and
\* dur="900s" and no other directive yield loopDuration = 420000.
C5_Original ==
  (/\ pc = "done"
   /\ TwoExplicitForever(<<"7", "0", "0", "s">>, <<"9", "0", "0", "s">>)) =>
    result.loopDuration = Num(Whole(420000))

\* C5 amended: two explicit-forever directives with dur="700s" and
\* dur="900s" and no other directive yield loopDuration = 700000.
C5_SevenHundredSeconds ==
  (/\ pc = "done"
   /\ TwoExplicitForever(<<"7", "0", "0", "s">>, <<"9", "0", "0", "s">>)) =>
    result.loopDuration = Num(Whole(700000))

\* the document of C5 has been analysed
C5_Witness ==
  /\ pc = "done"
  /\ TwoExplicitForever(<<"7", "0", "0", "s">>, <<"9", "0", "0", "s">>)
  /\ result.hasInfiniteAnimations
  /\ result.duration = Null

\* C6: after the placeholder durations of the repeatCount="indefinite"
\* animations are filtered out, the loop duration is the shortest of the
\* remaining reasonable loop durations.
C6_ShortestReasonable ==
  LET reasonable == {b \in ExplicitBases : b > 0 /\ b <= Whole(600000)}
  IN (pc = "done" /\ reasonable # {}) =>
       result.loopDuration = Num(SetMin(reasonable))

\* C7 as stated: when some directive is infinite and no explicit-forever
\* directive contributes a base duration, loopDuration is the maximum base
\* duration among all infinite windows; dur="1s" repeatCount="5000" alone
\* is infinite, not explicit-forever, with base duration 1000 and yields
\* hasInfiniteAnimations, duration = null and loopDuration = 1000.
C7_Original ==
  pc = "done" =>
    /\ (/\ result.hasInfiniteAnimations
        /\ \A b \in ExplicitBases : b <= 0) =>
         result.loopDuration =
           IF InfiniteBases = {} THEN Null ELSE Num(SetMax(InfiniteBases))
    /\ (/\ Len(trace) = 1
        /\ trace[1].element.dur = <<"1", "s">>
        /\ trace[1].element.repeatCount = <<"5", "0", "0", "0">>
        /\ trace[1].element.repeatDur = Absent) =>
         /\ trace[1].timing = Timing(Null, TRUE, Num(Whole(1000)), FALSE)
         /\ result.hasInfiniteAnimations
         /\ result.duration = Null
         /\ result.loopDuration = Num(Whole(1000))

\* C7 amended: when some directive is infinite and no explicit-forever
\* directive contributes a base duration, loopDuration is the maximum
\* strictly positive base duration among all infinite windows and null when
\* there is none; the example of dur="1s" repeatCount="5000" is unchanged.
C7_MaxOfInfinite ==
  pc = "done" =>
    /\ (/\ result.hasInfiniteAnimations
        /\ \A b \in ExplicitBases : b <= 0) =>
         LET positive == {b \in InfiniteBases : b > 0}
         IN result.loopDuration =
              IF positive = {} THEN Null ELSE Num(SetMax(positive))
    /\ (/\ Len(trace) = 1
        /\ trace[1].element.dur = <<"1", "s">>
        /\ trace[1].element.repeatCount = <<"5", "0", "0", "0">>
        /\ trace[1].element.repeatDur = Absent) =>
         /\ trace[1].timing = Timing(Null, TRUE, Num(Whole(1000)), FALSE)
         /\ result.hasInfiniteAnimations
         /\ result.duration = Null
         /\ result.loopDuration = Num(Whole(1000))

\* two infinite windows with different positive base durations, neither
\* explicit-forever: the longer one is the loop
C7_Witness ==
  /\ pc = "done"
  /\ result.hasInfiniteAnimations
  /\ \A w \in Windows : ~w.isExplicitInfinite
  /\ Cardinality({b \in InfiniteBases : b > 0}) = 2
  /\ result.loopDuration = Num(SetMax(InfiniteBases))

\* C8: if hasInfiniteAnimations is true and no infinite window has a known
\* positive base duration, loopDuration is null; loopDuration is never 0.
C8_NoCandidateNoLoop ==
  pc = "done" =>
    /\ (/\ result.hasInfiniteAnimations
        /\ \A w \in InfiniteWindows : ~JsGt(w.baseDuration, Num(0))) =>
         result.loopDuration = Null
    /\ result.loopDuration # Num(0)

\* an explicit-forever directive with base duration 0 was analysed and no
\* loop duration resulted
C8_Witness ==
  /\ pc = "done"
  /\ \E w \in Windows : w.isExplicitInfinite /\ w.baseDuration = Num(0)
  /\ \E w \in Windows : w.isInfinite /\ w.baseDuration = Null
  /\ result.hasInfiniteAnimations
  /\ result.loopDuration = Null

\* C9: hasAnimations is true exactly when the document contains an element
\* of one of the five directive kinds; a document with none yields
\* hasAnimations = false, hasInfiniteAnimations = false, duration = null and
\* loopDuration = null.
C9_HasAnimations ==
  pc = "done" =>
    LET directives == {i \in DOMAIN doc : doc[i].tag \in DirectiveKinds}
    IN /\ result.hasAnimations <=> directives # {}
       /\ directives = {} => result = NoResult

\* a document of one animateColor directive and one element that is no
\* directive: only the former is visited
C9_Witness ==
  /\ pc = "done"
  /\ Len(doc) = 2
  /\ Len(trace) = 1
  /\ trace[1].element.tag = "animateColor"
  /\ result.hasAnimations

\* C10: a directive whose dur attribute is exactly "indefinite" resolves to
\* an infinite window with null end time, null base duration and
\* isExplicitInfinite = false whatever its other attributes are; it sets
\* hasInfiniteAnimations and contributes no loop-duration candidate (the
\* loop duration is that of the document without such directives).
C10_DurIndefiniteFirst ==
  pc = "done" =>
    \A i \in DOMAIN trace :
      trace[i].element.dur = INDEFINITE =>
        /\ trace[i].timing = Timing(Null, TRUE, Null, FALSE)
        /\ result.hasInfiniteAnimations
        /\ result.loopDuration =
             analyzeAnimations(
               SelectSeq(doc, LAMBDA e : e.dur # INDEFINITE)).loopDuration

\* a directive with dur, repeatCount and repeatDur all "indefinite" next to
\* a looping directive
C10_Witness ==
  /\ pc = "done"
  /\ \E i \in DOMAIN trace :
       /\ trace[i].element.dur = INDEFINITE
       /\ trace[i].element.repeatCount = INDEFINITE
       /\ trace[i].element.repeatDur = INDEFINITE
       /\ trace[i].element.begin # Absent
  /\ result.loopDuration # Null

\* the element carries none of the three "indefinite" sentinels
NoSentinel(e) ==
  /\ e.dur # INDEFINITE
  /\ e.repeatCount # INDEFINITE
  /\ e.repeatDur # INDEFINITE

\* total span of a directive without sentinels: the repeatDur when it parses
\* to a number, else base duration x repeat count, an absent or unparseable
\* dur counting as 0
ClaimedSpan(e) ==
  LET base == OrZero(BaseDurationOf(e.dur))
      repeatDur == RepeatDurationOf(e.repeatDur)
  IN IF IsNum(repeatDur) THEN repeatDur[2]
     ELSE JsMul(base, RepeatCountOf(e.repeatCount))[2]

\* C11: a directive whose dur is not "indefinite" and whose repeatCount or
\* repeatDur is "indefinite" resolves to an infinite explicit-forever window
\* that keeps the parsed base duration, 0 when dur is absent or unparseable,
\* whatever begin and the other repeat attribute are; dur="76s"
\* repeatCount="indefinite" alone yields hasInfiniteAnimations,
\* loopDuration = 76000 and duration = null.
C11_ExplicitForever ==
  pc = "done" =>
    /\ \A i \in DOMAIN trace :
         IsExplicitForever(trace[i].element) =>
           trace[i].timing =
             Timing(Null, TRUE, OrZero(BaseDurationOf(trace[i].element.dur)),
                    TRUE)
    /\ (/\ Len(trace) = 1
        /\ trace[1].element.dur = <<"7", "6", "s">>
        /\ trace[1].element.repeatCount = INDEFINITE) =>
         /\ result.hasInfiniteAnimations
         /\ result.loopDuration = Num(Whole(76000))
         /\ result.duration = Null

\* C12: for a directive without sentinels the total span is the parsed
\* repeatDur when present and parseable, otherwise base duration x
\* repeatCount with the defaults 0 and 1, and the end time of a finite
\* window is the parsed begin (0 when absent or unparseable) + total span.
C12_FiniteEndTime ==
  pc = "done" =>
    \A i \in DOMAIN trace :
      (NoSentinel(trace[i].element) /\ ~trace[i].timing.isInfinite) =>
        trace[i].timing.endTime = Num(ClaimedEndTime(trace[i].element))

\* C13: a directive without sentinels is resolved as infinite (null end
\* time, not explicit-forever, base duration kept) exactly when its total
\* span is strictly greater than 3600000 ms; the begin offset is not counted.
C13_LongSpanIsInfinite ==
  pc = "done" =>
    \A i \in DOMAIN trace :
      NoSentinel(trace[i].element) =>
        LET e == trace[i].element
            t == trace[i].timing
        IN /\ t.isInfinite <=> ClaimedSpan(e) > Whole(3600000)
           /\ t.isInfinite =>
                /\ t.endTime = Null
                /\ ~t.isExplicitInfinite
                /\ t.baseDuration = OrZero(BaseDurationOf(e.dur))

\* s is a decimal numeral: an optional sign, digits, optionally "." and digits
IsDecimal(s) ==
  LET u == IF s # <<>> /\ Head(s) \in {"-", "+"} THEN Tail(s) ELSE s
      n == DigitRun(u)
      rest == SubSeq(u, n + 1, Len(u))
  IN /\ u # <<>>
     /\ \/ n > 0 /\ rest = <<>>
        \/ /\ rest # <<>> /\ Head(rest) = "."
           /\ n + DigitRun(Tail(rest)) > 0
           /\ DigitRun(Tail(rest)) = Len(rest) - 1

\* the numbers of a viewBox read as the claims read it: four numerals
\* separated by spaces or by commas; <<>> when it is anything else
ViewBoxNumbers(viewBox) ==
  LET parts == Tokens(viewBox, {" ", ","})
  IN IF Len(parts) = 4 /\ \A i \in 1..4 : IsDecimal(parts[i])
       THEN [i \in 1..4 |-> parseFloat(parts[i])]
       ELSE <<>>

\* the viewBox gives a strictly positive (width, height) pair
ViewBoxPositive(viewBox) ==
  LET nums == ViewBoxNumbers(viewBox)
  IN nums # <<>> /\ nums[3][2] > 0 /\ nums[4][2] > 0

\* the attribute is absent or does not start with a number
NotNumeric(attr) == attr = Absent \/ parseNumericAttribute(attr) = Null

\* C14: when the width or the height attribute of the root is absent or
\* non-numeric and the viewBox holds four numbers separated by spaces or by
\* commas (the last two strictly positive), extractDimensions returns the third
\* and the fourth of them as (width, height).
C14_ViewBoxFallback ==
  (/\ pc = "dims-done"
   /\ NotNumeric(root.width) \/ NotNumeric(root.height)
   /\ ViewBoxPositive(root.viewBox))
  => /\ error = "none"
     /\ dims = [width |-> ViewBoxNumbers(root.viewBox)[3],
                height |-> ViewBoxNumbers(root.viewBox)[4]]

\* the fallback on a viewBox whose numbers are separated by white space only
ViewBoxFallback_SpaceSeparated ==
  (/\ pc = "dims-done"
   /\ NotNumeric(root.width) \/ NotNumeric(root.height)
   /\ ViewBoxPositive(root.viewBox)
   /\ \A i \in DOMAIN root.viewBox : root.viewBox[i] # ",")
  => /\ error = "none"
     /\ dims = [width |-> ViewBoxNumbers(root.viewBox)[3],
                height |-> ViewBoxNumbers(root.viewBox)[4]]

\* a strictly positive pair is obtainable from the width/height attributes
AttributesPositive(r) ==
  /\ JsGt(AttributeWidth(r), Num(0))
  /\ JsGt(AttributeHeight(r), Num(0))

\* C15: extractDimensions raises a ValidationError exactly when neither the
\* width/height attributes nor the viewBox give a strictly positive pair, and
\* whenever it returns both width and height are strictly positive numbers.
C15_PositiveOrValidationError ==
  pc = "dims-done" =>
    /\ error = "ValidationError"
         <=> ~(AttributesPositive(root) \/ ViewBoxPositive(root.viewBox))
    /\ error = "none" =>
         /\ IsNum(dims.width) /\ dims.width[2] > 0
         /\ IsNum(dims.height) /\ dims.height[2] > 0
    /\ error \in {"none", "ValidationError"}

\* s is an unsigned number, possibly fractional: digits, optionally "." and
\* digits, with at least one digit
IsUnsignedDecimal(s) == IsDecimal(s) /\ Head(s) \notin {"-", "+"}

\* what the time string denotes: <<number, unit>> when it has the shape
\* <number><unit> with unit ms or s in any letter case, <<>> otherwise
TimeShape(s) ==
  LET n == Len(s)
  IN IF /\ n >= 3
        /\ ToLower(s[n - 1]) = "m" /\ ToLower(s[n]) = "s"
        /\ IsUnsignedDecimal(SubSeq(s, 1, n - 2))
       THEN <<SubSeq(s, 1, n - 2), "ms">>
     ELSE IF /\ n >= 2
             /\ ToLower(s[n]) = "s"
             /\ IsUnsignedDecimal(SubSeq(s, 1, n - 1))
       THEN <<SubSeq(s, 1, n - 1), "s">>
     ELSE <<>>

\* the milliseconds a well-shaped time string stands for, null for the rest
ClaimedTime(s) ==
  LET shape == TimeShape(s)
  IN IF shape = <<>> THEN Null
     ELSE IF shape[2] = "ms" THEN parseFloat(shape[1])
     ELSE Num(parseFloat(shape[1])[2] * 1000)

\* C16: parseTime returns the value in milliseconds for a string of the shape
\* <number><unit> (unit ms or s in any letter case, number unsigned and
\* possibly fractional) and the null sentinel for every other string.
C16_ParseTime ==
  pc = "time-done" => timeOut = ClaimedTime(timeArg)

\* parseTime agrees with the claim on every string whose number part has at
\* most one dot and at least one digit
ParseTime_WellFormedNumbers ==
  (/\ pc = "time-done"
   /\ TimeMatch(timeArg) # <<>> => IsUnsignedDecimal(TimeMatch(timeArg)[1]))
  => timeOut = ClaimedTime(timeArg)

\* a time attribute that is present but is neither 'indefinite' nor a time
MalformedTime(attr) ==
  attr # Absent /\ attr # INDEFINITE /\ ClaimedTime(attr) = Null

\* a repeatCount that is present but is neither 'indefinite' nor a number
MalformedCount(attr) ==
  attr # Absent /\ attr # INDEFINITE /\ parseFloat(attr) = NaN

\* the directive with every malformed timing attribute taken away
WithoutMalformed(e) ==
  Element(e.tag,
          IF MalformedTime(e.dur) THEN Absent ELSE e.dur,
          IF MalformedTime(e.begin) THEN Absent ELSE e.begin,
          IF MalformedCount(e.repeatCount) THEN Absent ELSE e.repeatCount,
          IF MalformedTime(e.repeatDur) THEN Absent ELSE e.repeatDur)

\* a strictly positive (width, height) pair is derivable from the root
Derivable(r) == AttributesPositive(r) \/ ViewBoxPositive(r.viewBox)

\* every field of the analysis result holds a value of its kind
CompleteResult ==
  /\ result.hasAnimations \in BOOLEAN
  /\ result.hasInfiniteAnimations \in BOOLEAN
  /\ result.duration = Null \/ IsNum(result.duration)
  /\ result.loopDuration = Null \/ IsNum(result.loopDuration)
  /\ IsNum(dims.width) /\ IsNum(dims.height)

\* C17: for an svg root with derivable dimensions analyzeSVG returns a
\* complete result whatever dur, begin, repeatCount and repeatDur hold, a
\* malformed attribute counting as an absent one; it raises a ValidationError
\* only for a missing or non-svg root or underivable dimensions.
C17_TwoTierFailure ==
  pc = "svg-done" =>
    /\ error \in {"none", "ValidationError"}
    /\ error = "ValidationError" <=> (NoSvgRoot(root) \/ ~Derivable(root))
    /\ error = "none" =>
         /\ CompleteResult
         /\ result = analyzeAnimations([i \in DOMAIN doc |->
                                          WithoutMalformed(doc[i])])

\* no timing attribute makes analyzeSVG throw: whether it throws depends on
\* the root alone
TimingNeverThrows ==
  pc = "svg-done" =>
    (error = "ValidationError"
       <=> (NoSvgRoot(root) \/ extractDimensions(root).threw))

\* C17 on documents without a dots-only time and roots whose attributes are
\* not numeric and non-positive
TwoTierFailure_NoDotTimes ==
  (/\ pc = "svg-done"
   /\ \A i \in DOMAIN doc : <<".", "s">> \notin
        {doc[i].dur, doc[i].begin, doc[i].repeatDur}
   /\ root.width # <<"0">>)
  => /\ error = "ValidationError" <=> (NoSvgRoot(root) \/ ~Derivable(root))
     /\ error = "none" =>
          /\ CompleteResult
          /\ result = analyzeAnimations([i \in DOMAIN doc |->
                                           WithoutMalformed(doc[i])])

\* main has started the recorder / the encoder
RecorderStarted == \E i \in DOMAIN stages : stages[i] = "recordAnimation"
EncoderStarted == \E i \in DOMAIN stages : stages[i] = "processVideo"

\* the caller supplied a --duration or a -d value
ManualDuration == OptDuration(opts) # Undefined

\* C18: whenever the caller supplies a --duration/-d value, the capture
\* length passed to the recorder is that value in seconds times 1000 ms,
\* whatever the analysis found.
C18_ManualOverrideWins ==
  (ManualDuration /\ RecorderStarted)
  => locals.durationMs = JsMul(ToNumber(OptDuration(opts)), Num(Whole(1000)))

\* a manual duration that is a strictly positive number does win
ManualOverride_Positive ==
  (ManualDuration /\ RecorderStarted /\ JsGt(OptDuration(opts), Num(0)))
  => locals.durationMs = JsMul(OptDuration(opts), Num(Whole(1000)))

\* the duration decision was reached: the analysis returned and width and
\* height passed their validation
DurationDecided ==
  /\ pc \notin {"main", "checkFFmpeg", "analyze", "decide"}
  /\ locals.finalHeight # Undefined

\* the decision ended in a validation failure and nothing was started
DecisionFailed ==
  /\ locals.durationMs = Undefined
  /\ error = "ValidationError"
  /\ exitCode = <<1>>
  /\ ~RecorderStarted /\ ~EncoderStarted

\* C19: without a manual duration main decides in this order: infinite
\* animations with a loop duration give capture length loopDuration, infinite
\* animations without one a validation failure, no animations a validation
\* failure, a null duration a validation failure, otherwise capture length
\* duration; in the failure cases neither recorder nor encoder is started.
C19_DecisionOrder ==
  /\ (DurationDecided /\ ~ManualDuration) =>
       IF result.hasInfiniteAnimations
         THEN IF result.loopDuration # Null
                THEN locals.durationMs = result.loopDuration
                ELSE DecisionFailed
       ELSE IF ~result.hasAnimations THEN DecisionFailed
       ELSE IF result.duration = Null THEN DecisionFailed
       ELSE locals.durationMs = result.duration
  /\ RecorderStarted =>
       /\ IsNum(locals.durationMs)
       /\ ~ManualDuration =>
            locals.durationMs \in {result.loopDuration, result.duration}

\* one loop is being recorded: no manual duration, the recorder was started
\* with the loop duration of an endless animation
C19_Witness ==
  /\ ~ManualDuration
  /\ RecorderStarted
  /\ result.hasInfiniteAnimations
  /\ result.loopDuration = Num(Whole(5000))
  /\ locals.durationMs = Num(Whole(5000))

\* C20: when the run has ended, on the success path and on every failure
\* path, no temporary file (HTML page, WebM recording) is left.
C20_TempFilesRemoved ==
  exitCode # <<>> => files = {}

\* the temporary files are gone when the run ends with exit code 0
TempFilesRemoved_OnSuccess ==
  exitCode = <<0>> => files = {}

\* an option was given and is not a strictly positive number
BadOption(v) == v # Undefined /\ Invalid(v)

\* one of width, height, duration and fps was given a bad value
SomeBadOption ==
  \/ BadOption(OptWidth(opts))
  \/ BadOption(OptHeight(opts))
  \/ BadOption(OptDuration(opts))
  \/ BadOption(OptFps(opts))

\* the validation of the options is over: the document was analysed and
\* main has left lines 80-124
OptionsValidated ==
  /\ pc \notin {"main", "checkFFmpeg", "analyze", "decide"}
  /\ \E i \in DOMAIN stages : stages[i] = "analyzeSVG"
  /\ ~NoSvgRoot(root)
  /\ ~extractDimensions(root).threw

\* C21: a non-positive or non-numeric width, height, duration or fps option
\* ends the run as a validation error: error kind ValidationError, exit
\* code 1, like a missing input file or an unresolvable duration.
C21_BadOptionIsValidationError ==
  (OptionsValidated /\ SomeBadOption)
  => error = "ValidationError" /\ exitCode = <<1>>

\* a bad option that is truthy stops the run before the page is generated
BadOption_StopsRun ==
  (/\ OptionsValidated
   /\ \/ BadOption(OptWidth(opts)) /\ Truthy(OptWidth(opts))
      \/ BadOption(OptHeight(opts)) /\ Truthy(OptHeight(opts))
      \/ BadOption(OptDuration(opts)) /\ Truthy(OptDuration(opts))
      \/ BadOption(OptFps(opts)))
  => pc = "exited" /\ exitCode \in {<<1>>, <<99>>} /\ stages = <<"checkFFmpeg", "analyzeSVG">>

\* the stages of one conversion job in the order the claim gives them
StageOrder ==
  <<"checkFFmpeg", "analyzeSVG", "generateHTMLFile", "recordAnimation",
    "processVideo">>

\* C22: the stages of a job run one after another in the order toolchain
\* check, document analysis, HTML generation, recording, encoding, each
\* starting only after the previous one completed successfully; a failed
\* toolchain check ends the run with a SystemError before the document is
\* analysed, a temporary file is created or the browser is launched.
C22_StagesInOrder ==
  /\ Len(stages) <= Len(StageOrder)
  /\ stages = SubSeq(StageOrder, 1, Len(stages))
  /\ error # "none" => pc = "exited"
  /\ files # {} => Len(stages) >= 3
  /\ "webm" \in files => Len(stages) >= 4
  /\ error = "SystemError" =>
       /\ stages = <<"checkFFmpeg">>
       /\ exitCode = <<3>>
       /\ result = NoResult /\ trace = <<>>
       /\ files = {}

\* a job that went through all five stages and ended normally
C22_Witness ==
  /\ stages = StageOrder
  /\ pc = "exited"
  /\ exitCode = <<0>>
  /\ error = "none"

RECURSIVE SumOf(_)
\* the sum of a sequence of numbers, in fixed point
SumOf(seq) == IF seq = <<>> THEN 0 ELSE seq[1][2] + SumOf(Tail(seq))

\* the wait loop was left through its condition, not through an error
LoopCompleted ==
  /\ pc \in {"finally-stop", "finally-page", "finally-browser",
             "finally-done", "settled"}
  /\ rec.failedAt \in {"none", "stop"}

\* what holds of the waits and of the reported progress at every moment
WaitsAndProgress ==
  /\ SumOf(rec.waits) = rec.elapsed[2]
  /\ rec.elapsed[2] <= rec.duration[2]
  /\ \A i \in DOMAIN rec.waits :
       LET remaining == rec.duration[2] - SumOf(SubSeq(rec.waits, 1, i - 1))
       IN rec.waits[i][2] =
            IF remaining < Whole(1000) THEN remaining ELSE Whole(1000)
  /\ Len(rec.progress) = Len(rec.waits)
  /\ \A i \in DOMAIN rec.progress :
       /\ rec.progress[i][2] % 10 = 0
       /\ rec.progress[i][2] >= 0 /\ rec.progress[i][2] <= Whole(100)
       /\ i > 1 => rec.progress[i - 1][2] <= rec.progress[i][2]

\* C23: for every duration > 0 the wait loop of recordAnimation terminates,
\* its waits add up to exactly the requested duration, each being
\* min(1000, remaining), and the progress values reported are non-decreasing
\* integers in 0..100 of which the last is 100.
C23_WaitLoop ==
  /\ [](rec.duration # Null /\ rec.duration[2] > 0 =>
          /\ WaitsAndProgress
          /\ LoopCompleted =>
               /\ SumOf(rec.waits) = rec.duration[2]
               /\ rec.progress # <<>>
               /\ rec.progress[Len(rec.progress)] = Num(Whole(100)))
  /\ (pc = "loop") ~> (pc # "loop")

\* a capture of 2.5 s was recorded in three waits
C23_Witness ==
  /\ pc = "settled"
  /\ rec.outcome = "returned"
  /\ rec.duration = Num(Whole(2500))
  /\ rec.waits = <<Num(Whole(1000)), Num(Whole(1000)), Num(Whole(500))>>
  /\ rec.progress = <<Num(Whole(40)), Num(Whole(80)), Num(Whole(100))>>

\* the one-to-one maps of 1..n onto itself
Orderings(n) ==
  {p \in [1..n -> 1..n] : \A i, j \in 1..n : p[i] = p[j] => i = j}

\* the document with its elements rearranged by p and every directive
\* turned into the kind tag
Rearranged(d, p, tag) ==
  [i \in DOMAIN d |->
     IF d[p[i]].tag \in DirectiveKinds
       THEN [d[p[i]] EXCEPT !.tag = tag] ELSE d[p[i]]]

\* C24: the analysis result depends neither on which of the five directive
\* kinds carries a set of timing attributes nor on the order of the
\* directives: every rearrangement of the document with all its directives
\* turned into one kind has the result of the document itself, so any two
\* documents that differ by a permutation and a change of kinds agree.
C24_KindAndOrderIrrelevant ==
  pc = "done" =>
    \A p \in Orderings(Len(doc)) :
      analyzeAnimations(Rearranged(doc, p, "animate")) = result

\* two directives of different kinds and with different timing, neither of
\* the first kind of the tag list, were analysed
C24_Witness ==
  /\ pc = "done"
  /\ Len(doc) = 2
  /\ doc[1].tag = "set" /\ doc[2].tag = "animateMotion"
  /\ doc[1].dur # doc[2].dur
  /\ result.hasAnimations

\* the terminal outcome the claim gives each error kind
ClaimedExit ==
  CASE error = "ValidationError" -> <<1>>
    [] error = "ProcessingError" -> <<2>>
    [] error = "SystemError" -> <<3>>
    [] error = "none" -> <<0>>
    [] OTHER -> <<99>>

\* C25: main ends with exit code 1 for a ValidationError, 2 for a
\* ProcessingError, 3 for a SystemError and 99 for any other error; a
\* failure of the recorder or of the encoder always surfaces as
\* ProcessingError, a missing FFmpeg as SystemError, and no stage is entered
\* a second time after it failed.
C25_ExitCodes ==
  /\ [](/\ exitCode # <<>> => exitCode = ClaimedExit
        /\ error # "none" => pc = "exited" /\ exitCode # <<>>
        /\ \A i, j \in DOMAIN stages : stages[i] = stages[j] => i = j)
  /\ [][/\ (pc \in {"record", "process"} /\ pc' = "exited")
             => error' = "ProcessingError" /\ exitCode' = <<2>>
        /\ (pc = "checkFFmpeg" /\ pc' = "exited")
             => error' = "SystemError" /\ exitCode' = <<3>>
        /\ pc = "exited" => UNCHANGED stages]_vars

\* the encoder failed and the run ended with exit code 2
C25_Witness ==
  /\ pc = "exited"
  /\ error = "ProcessingError"
  /\ exitCode = <<2>>
  /\ stages = StageOrder

\* the position of the first occurrence of e in seq, 0 when there is none
IndexOf(seq, e) ==
  IF \E i \in DOMAIN seq : seq[i] = e
    THEN CHOOSE i \in DOMAIN seq :
           seq[i] = e /\ \A j \in 1..(i - 1) : seq[j] # e
    ELSE 0

\* the last position of e in seq, 0 when there is none
LastIndexOf(seq, e) ==
  IF \E i \in DOMAIN seq : seq[i] = e
    THEN CHOOSE i \in DOMAIN seq :
           seq[i] = e /\ \A j \in (i + 1)..Len(seq) : seq[j] # e
    ELSE 0

\* C26: recordAnimation releases its resources on every path: when the
\* browser was launched browser.close() has been called by the time the call
\* returns or throws, page.close() is called before it, a failure at any step
\* of the try block is rethrown as a ProcessingError, and an error of a
\* cleanup step (a second recorder.stop, stopping a recorder that never
\* started) never replaces the outcome.
C26_ResourcesReleased ==
  pc = "settled" =>
    /\ rec.browser # "null" => IndexOf(rec.events, "browser.close") > 0
    /\ rec.page # "null" =>
         /\ IndexOf(rec.events, "page.close") > 0
         /\ IndexOf(rec.events, "page.close")
              < IndexOf(rec.events, "browser.close")
    /\ rec.recorder # "null" =>
         /\ LastIndexOf(rec.events, "recorder.stop") > 0
         /\ LastIndexOf(rec.events, "recorder.stop")
              < IndexOf(rec.events, "page.close")
    /\ rec.browser = "open" => "browser.close" \in rec.ignored
    /\ rec.page = "open" => "page.close" \in rec.ignored
    /\ rec.outcome = IF rec.failedAt = "none" THEN "returned"
                     ELSE "ProcessingError"

\* navigation failed, so the recorder was never started; stopping it in
\* the finally block raised an error and the call still threw the
\* ProcessingError of the navigation
C26_Witness ==
  /\ pc = "settled"
  /\ rec.failedAt = "goto"
  /\ rec.ignored = {"recorder.stop"}
  /\ rec.events = <<"recorder.stop", "page.close", "browser.close">>
  /\ rec.browser = "closed" /\ rec.page = "closed"
  /\ rec.outcome = "ProcessingError"

\* C27: whenever main starts the recorder, the capture duration it passes
\* is a strictly positive number of milliseconds, whether it comes from a
\* manual duration, from loopDuration or from duration.
C27_PositiveCaptureDuration ==
  RecorderStarted =>
    /\ IsNum(locals.durationMs)
    /\ locals.durationMs[2] > 0
    /\ locals.durationMs \in
         {JsMul(ToNumber(OptDuration(opts)), Num(Whole(1000))),
          result.loopDuration, result.duration}

\* the recorder was started with a manual duration of 2 s
C27_Witness ==
  /\ RecorderStarted
  /\ OptDuration(opts) = Num(Whole(2))
  /\ locals.durationMs = Num(Whole(2000))

\* the document without the directives that resolve to a finite window
WithoutFinite(d) ==
  SelectSeq(d, LAMBDA e : \/ e.tag \notin DirectiveKinds
                          \/ parseAnimationTiming(e).isInfinite)

\* C28: the inferred values are taken from the document. A non-null
\* loopDuration is a strictly positive number, is the base duration of some
\* infinite directive of the document, and is the same when the finite
\* directives are taken out of the document; a non-null duration is a
\* strictly positive number and is the end time, begin + total span, of
\* some finite directive of the document.
C28_InferredFromDocument ==
  pc = "done" =>
    /\ result.loopDuration # Null =>
         /\ IsNum(result.loopDuration)
         /\ result.loopDuration[2] > 0
         /\ \E w \in InfiniteWindows : w.baseDuration = result.loopDuration
         /\ analyzeAnimations(WithoutFinite(doc)).loopDuration
              = result.loopDuration
    /\ result.duration # Null =>
         /\ IsNum(result.duration)
         /\ result.duration[2] > 0
         /\ \E i \in DOMAIN trace :
              /\ ~trace[i].timing.isInfinite
              /\ trace[i].timing.endTime = result.duration
              /\ Num(ClaimedEndTime(trace[i].element)) = result.duration

\* a document with an infinite and a finite directive got a loopDuration
C28_WitnessLoop ==
  /\ pc = "done"
  /\ result.loopDuration # Null
  /\ \E w \in Windows : ~w.isInfinite /\ w.endTime # Null
  /\ \E w \in InfiniteWindows : w.baseDuration = result.loopDuration

\* a document with two finite directives of different end times got a
\* duration
C28_Witness ==
  /\ pc = "done"
  /\ result.duration # Null
  /\ Len(trace) = 2
  /\ ~trace[1].timing.isInfinite /\ ~trace[2].timing.isInfinite
  /\ IsNum(trace[1].timing.endTime) /\ IsNum(trace[2].timing.endTime)
  /\ trace[1].timing.endTime # trace[2].timing.endTime

====
